---------------------------- MODULE Spec2Model ----------------------------
(***************************************************************************)
(* A model of the hazard-api repository: the social-media ingestion        *)
(* clients (src/social_media/twitter.py, src/social_media/instagram.py)    *)
(* and the hazard-report CRUD service (src/api).                           *)
(*                                                                         *)
(* Numbers that the code keeps as floats in [0, 1] (classifier confidence, *)
(* credibility score) are modelled in hundredths: 0.3 is 30, 0.5 is 50.    *)
(*                                                                         *)
(* Specifications:                                                         *)
(*   Spec           one run of an ingestion client against the post store  *)
(*                  (fetch_ocean_hazard_tweets, analyze_ocean_hazard_      *)
(*                  content), starting from a store earlier runs left.     *)
(*   SpecUsage      serial calls of _log_api_usage as the clock advances.  *)
(*   SpecScorer     the credibility scorers applied to drawn arguments.    *)
(*   SpecNormalizer _process_tweet and the caption parsers applied to      *)
(*                  drawn payloads.                                        *)
(*   SpecReports    requests to the hazard-report API.                     *)
(*   SpecLive       Spec, with every step of the run completing.           *)
(*   SpecCalls      outbound platform calls, one after another.            *)
(*   SpecRace       two ingest runs whose steps interleave.                *)
(*   SpecUpsert     callers of _log_api_usage whose steps interleave.      *)
(***************************************************************************)
EXTENDS Integers, Sequences, FiniteSets, Bags, TLC

VARIABLES
    posts,        \* SocialMediaPost table: a bag of rows (rows carry no key constraint)
    usage,        \* APIUsage table: a set of rows
    now,          \* timezone.now(), in ticks
    pc,           \* position of the running client
    unit,         \* index of the keyword / account being processed
    items,        \* the fetched tweets_data / media_items still to be ingested
    profile,      \* Instagram: the profile of the account being processed
    fetch_failed, \* the current unit's fetch took a failure path (and logged it)
    total_saved,  \* total_saved / total_analyzed, the run's return value
    trace,        \* what the last ingest step did, item by item
    calls,        \* the calls made so far (of _log_api_usage, or outbound), per bucket key
    sc,           \* a credibility scorer call: its arguments and its result
    nz,           \* a normalizer call: its argument and its result
    reports,      \* HazardReport table: id -> row
    resp,         \* the last request to the hazard-report API and its response
    obs,          \* the last _log_api_usage call: its arguments
    procs         \* interleaved callers: each one's position and local values

vars == <<posts, usage, now, pc, unit, items, profile, fetch_failed,
          total_saved, trace, calls, sc, nz, reports, resp, obs, procs>>

\* What a run of an ingestion client leaves alone.
offRun == <<calls, sc, nz, reports, resp, obs, procs>>

---------------------------------------------------------------------------
(* Bounds of the model.                                                    *)

\* Longest list of tweets one search yields (flatten(limit=max_results)).
MaxBatch == 2
\* Longest list of media one account's page holds (min(limit, 25)).
MaxMedia == 1
\* Clock ticks per usage bucket (now.hour).
TicksPerHour == 2

PostIds == {"abc", "xyz"}
\* Tweet texts and captions, as character sequences: empty, or "a #b @a".
Texts == {<<>>, <<"a", " ", "#", "b", " ", "@", "a">>}

\* Sequences over S of length 0..n.
SeqUpTo(S, n) == UNION {[1..k -> S] : k \in 0..n}

---------------------------------------------------------------------------
(* Raw tweets and TwitterAPIClient._process_tweet.                         *)

\* A structured entity list: a key that is absent, or a list of elements.
\* An element is the value under the element's key ('tag', 'username',
\* 'expanded_url'), or NoKey for an element that lacks the key.
NoKey == "<no key>"
AbsentField == [present |-> FALSE, elems |-> <<>>]
ListField(s) == [present |-> TRUE, elems |-> s]

\* tweet.entities: None, or a dict of entity lists.
EntNone == [kind |-> "none", hashtags |-> AbsentField, mentions |-> AbsentField,
            urls |-> AbsentField]
EntDict(h, m, u) == [kind |-> "dict", hashtags |-> h, mentions |-> m, urls |-> u]

\* tweet.geo: None, or a dict that may hold 'coordinates' (a dict holding a
\* 'coordinates' list, or some other value) and may hold 'place_id'.
GeoNone == [kind |-> "none", has_coordinates |-> FALSE, coords_is_dict |-> FALSE,
            has_inner |-> FALSE, inner |-> <<>>, has_place_id |-> FALSE]
GeoDict(hc, cd, hi, in, hp) ==
    [kind |-> "dict", has_coordinates |-> hc, coords_is_dict |-> cd,
     has_inner |-> hi, inner |-> in, has_place_id |-> hp]

NoLocation == [set |-> FALSE, lng |-> 0, lat |-> 0]
PointAt(x, y) == [set |-> TRUE, lng |-> x, lat |-> y]

\* The value _process_tweet returns when it catches an exception.
NoneResult == [none |-> TRUE]

HasNoKey(f) == \E i \in 1..Len(f.elems) : f.elems[i] = NoKey

\* [tag['tag'] for tag in entities['hashtags']] when the key is present, else [].
ReadField(f) == IF f.present THEN f.elems ELSE <<>>

\* The geo block raises when the inner coordinate list does not unpack into
\* exactly (lng, lat).
GeoRaises(g) ==
    /\ g.kind = "dict"
    /\ g.has_coordinates /\ g.coords_is_dict /\ g.has_inner
    /\ Len(g.inner) # 2

GeoLocation(g) ==
    IF g.kind = "dict" /\ g.has_coordinates /\ g.coords_is_dict /\ g.has_inner
       /\ Len(g.inner) = 2
    THEN PointAt(g.inner[1], g.inner[2])
    ELSE NoLocation

\* `'hashtags' in entities` raises on None; a list element without its key
\* raises KeyError. Either way the except branch returns None.
EntitiesRaise(e) ==
    \/ e.kind = "none"
    \/ (e.hashtags.present /\ HasNoKey(e.hashtags))
    \/ (e.mentions.present /\ HasNoKey(e.mentions))
    \/ (e.urls.present /\ HasNoKey(e.urls))

ProcessTweet(tweet) ==
    IF GeoRaises(tweet.geo) \/ EntitiesRaise(tweet.entities)
    THEN NoneResult
    ELSE [none |-> FALSE,
          tweet_id |-> tweet.id,
          text |-> tweet.text,
          location |-> GeoLocation(tweet.geo),
          hashtags |-> ReadField(tweet.entities.hashtags),
          mentions |-> ReadField(tweet.entities.mentions),
          urls |-> ReadField(tweet.entities.urls),
          is_verified |-> tweet.verified,
          followers_count |-> tweet.followers_count,
          engagement |-> tweet.engagement]

---------------------------------------------------------------------------
(* Credibility scorers, in hundredths.                                     *)

Min(a, b) == IF a < b THEN a ELSE b
Max(a, b) == IF a > b THEN a ELSE b

\* A scorer that does not bound its result.
ClampNone(score) == score

\* max(0.0, min(1.0, score))
Clamp(score) == Max(0, Min(100, score))

\* A chain of independent ifs: every matching tier adds its bonus.
TwFollowerBonusStacked(followers_count) ==
    (IF followers_count > 1000000 THEN 20 ELSE 0)
    + (IF followers_count > 100000 THEN 15 ELSE 0)
    + (IF followers_count > 10000 THEN 10 ELSE 0)
    + (IF followers_count > 1000 THEN 5 ELSE 0)

\* twitter.py: the if/elif chain over followers_count.
TwFollowerBonus(followers_count) ==
    IF followers_count > 1000000 THEN 20
    ELSE IF followers_count > 100000 THEN 15
    ELSE IF followers_count > 10000 THEN 10
    ELSE IF followers_count > 1000 THEN 5
    ELSE 0

\* twitter.py: the if/elif chain over total_engagement.
TwEngagementBonus(total_engagement) ==
    IF total_engagement > 100 THEN 10
    ELSE IF total_engagement > 10 THEN 5
    ELSE 0

\* TwitterAPIClient._calculate_credibility_score. followers_count is 0 when
\* the tweet carries no author metrics (the `if author_metrics:` guard).
TwCredibilityScore(is_verified, followers_count, total_engagement) ==
    Clamp(50 + (IF is_verified THEN 20 ELSE 0)
             + TwFollowerBonus(followers_count)
             + TwEngagementBonus(total_engagement))

\* instagram.py: the if/elif chain over insights['engagement'].
IgEngagementBonus(engagement) ==
    IF engagement > 1000 THEN 20
    ELSE IF engagement > 100 THEN 15
    ELSE IF engagement > 10 THEN 10
    ELSE 0

\* instagram.py: reach = insights.get('reach', 0) or insights.get('impressions', 0)
IgReach(reach, impressions) == IF reach # 0 THEN reach ELSE impressions

\* instagram.py: the if/elif chain over reach.
IgReachBonus(reach) ==
    IF reach > 10000 THEN 15
    ELSE IF reach > 1000 THEN 10
    ELSE 0

\* InstagramAPIClient._calculate_credibility_score.
IgCredibilityScore(is_business, engagement, reach, impressions) ==
    Clamp(50 + (IF is_business THEN 20 ELSE 0)
             + IgEngagementBonus(engagement)
             + IgReachBonus(IgReach(reach, impressions)))

---------------------------------------------------------------------------
(* Instagram caption parsing: re.findall(r'#(\w+)', text) and              *)
(* re.findall(r'@(\w+)', text), over captions as character sequences.      *)

WordChars == {"a", "b", "_"}
Chars == WordChars \cup {"#", "@", " "}

\* End of the run of word characters that starts at position i (i - 1 when
\* text[i] is no word character).
RECURSIVE WordEnd(_, _)
WordEnd(text, i) ==
    IF i <= Len(text) /\ text[i] \in WordChars
    THEN WordEnd(text, i + 1)
    ELSE i - 1

\* findall from position i on: non-overlapping, leftmost, greedy matches of
\* the marker followed by one or more word characters.
RECURSIVE FindAll(_, _, _)
FindAll(marker, text, i) ==
    IF i > Len(text) THEN <<>>
    ELSE IF text[i] = marker /\ WordEnd(text, i + 1) >= i + 1
         THEN <<SubSeq(text, i + 1, WordEnd(text, i + 1))>>
                 \o FindAll(marker, text, WordEnd(text, i + 1) + 1)
         ELSE FindAll(marker, text, i + 1)

ExtractHashtags(text) == FindAll("#", text, 1)
ExtractMentions(text) == FindAll("@", text, 1)

---------------------------------------------------------------------------
(* The classifier (ml_pipeline.process_text), an opaque collaborator: it   *)
(* raises, or returns a dict that may lack either verdict.                 *)

MLRaises == [raises |-> TRUE, has_disaster |-> FALSE, is_disaster |-> FALSE,
             confidence |-> 0, has_sentiment |-> FALSE]
MLEmpty == [raises |-> FALSE, has_disaster |-> FALSE, is_disaster |-> FALSE,
            confidence |-> 0, has_sentiment |-> FALSE]
MLVerdict(d, c) == [raises |-> FALSE, has_disaster |-> TRUE, is_disaster |-> d,
                    confidence |-> c, has_sentiment |-> TRUE]

MLOutcomes == {MLRaises, MLEmpty, MLVerdict(FALSE, 30), MLVerdict(TRUE, 20),
               MLVerdict(TRUE, 30)}

\* What happens to one item past the existence check: what the classifier
\* answers and, if the ingestor gets as far as objects.create, whether that
\* raises (the database is down, a constraint fails).
Fate(ml, create_raises) == [ml |-> ml, create_raises |-> create_raises]
ItemFates ==
    {Fate(ml, FALSE) : ml \in MLOutcomes} \cup {Fate(MLVerdict(TRUE, 30), TRUE)}

\* disaster_classification.get('is_disaster', False)
IsDisasterOf(ml) == IF ml.has_disaster THEN ml.is_disaster ELSE FALSE
\* disaster_classification.get('confidence', 0.0)
ConfidenceOf(ml) == IF ml.has_disaster THEN ml.confidence ELSE 0
\* sentiment_analysis.get('sentiment', 'neutral')
SentimentOf(ml) == IF ml.has_sentiment THEN "negative" ELSE "neutral"
\* sentiment_analysis.get('confidence', 0.0)
SentimentConfidenceOf(ml) == IF ml.has_sentiment THEN 90 ELSE 0

---------------------------------------------------------------------------
(* The SocialMediaPost table.                                              *)

Platforms == {"Twitter", "Instagram"}

\* The rows of the store with the given key.
RowsOf(store, platform, post_id) ==
    {r \in BagToSet(store) : r.platform = platform /\ r.post_id = post_id}

\* Number of rows of the store with the given key.
CountOf(store, platform, post_id) ==
    BagCardinality([r \in RowsOf(store, platform, post_id) |-> store[r]])

\* A lookup that never finds the post.
ExistingPostNever(store, platform, post_id) == FALSE

\* SocialMediaPost.objects.filter(platform=..., post_id=...).first() is not None
ExistingPost(store, platform, post_id) == RowsOf(store, platform, post_id) # {}

\* An insert that stores the row twice.
CreatePostTwice(store, row) == store (+) SetToBag({row}) (+) SetToBag({row})

\* SocialMediaPost.objects.create(**post_data)
CreatePost(store, row) == store (+) SetToBag({row})

\* One entry of the trace of an ingest step.
Ev(what, post_id) == [ev |-> what, post_id |-> post_id]

\* The trace of reading the verdict out of ml_results: "default" when the
\* result holds no disaster verdict and .get() falls back to (False, 0.0).
VerdictEv(ml, post_id) ==
    IF ml.has_disaster THEN <<>> ELSE <<Ev("default", post_id)>>

---------------------------------------------------------------------------
(* The APIUsage table and _log_api_usage. A bucket is keyed by platform,   *)
(* endpoint and the hour of the call (date and hour taken together).       *)

Hour(t) == t \div TicksPerHour

BucketsOf(u, platform, endpoint, hour) ==
    {r \in u : r.platform = platform /\ r.endpoint = endpoint /\ r.hour = hour}

\* The `defaults` of get_or_create.
NewBucket(platform, endpoint, hour) ==
    [platform |-> platform, endpoint |-> endpoint, hour |-> hour,
     requests_made |-> 0, successful_requests |-> 0, failed_requests |-> 0,
     rate_limited |-> 0, data_retrieved |-> 0]

\* APIUsage.objects.get_or_create(...)
GetOrCreate(u, platform, endpoint, hour) ==
    IF BucketsOf(u, platform, endpoint, hour) = {}
    THEN NewBucket(platform, endpoint, hour)
    ELSE CHOOSE r \in BucketsOf(u, platform, endpoint, hour) : TRUE

\* usage.save()
SaveBucket(u, old, new) == (u \ {old}) \cup {new}

\* A logger that adds data_count whether or not the call succeeded.
TwLogApiUsageDataAlways(u, endpoint, data_count, success, t) ==
    LET row == GetOrCreate(u, "Twitter", endpoint, Hour(t))
        counted == [row EXCEPT !.requests_made = @ + 1,
                               !.data_retrieved = @ + data_count]
    IN  SaveBucket(u, row,
            IF success
            THEN [counted EXCEPT !.successful_requests = @ + 1]
            ELSE [counted EXCEPT !.failed_requests = @ + 1])

\* TwitterAPIClient._log_api_usage(endpoint, data_count, success)
TwLogApiUsage(u, endpoint, data_count, success, t) ==
    LET row == GetOrCreate(u, "Twitter", endpoint, Hour(t))
        counted == [row EXCEPT !.requests_made = @ + 1]
    IN  SaveBucket(u, row,
            IF success
            THEN [counted EXCEPT !.successful_requests = @ + 1,
                                 !.data_retrieved = @ + data_count]
            ELSE [counted EXCEPT !.failed_requests = @ + 1])

\* A logger that counts a rate-limited call as a failed one as well.
IgLogApiUsageCountsBoth(u, endpoint, data_count, success, rate_limited, t) ==
    LET row == GetOrCreate(u, "Instagram", endpoint, Hour(t))
        counted == [row EXCEPT !.requests_made = @ + 1]
    IN  SaveBucket(u, row,
            IF success
            THEN [counted EXCEPT !.successful_requests = @ + 1,
                                 !.data_retrieved = @ + data_count]
            ELSE IF rate_limited
            THEN [counted EXCEPT !.rate_limited = @ + 1,
                                 !.failed_requests = @ + 1]
            ELSE [counted EXCEPT !.failed_requests = @ + 1])

\* InstagramAPIClient._log_api_usage(endpoint, data_count, success, rate_limited)
IgLogApiUsage(u, endpoint, data_count, success, rate_limited, t) ==
    LET row == GetOrCreate(u, "Instagram", endpoint, Hour(t))
        counted == [row EXCEPT !.requests_made = @ + 1]
    IN  SaveBucket(u, row,
            IF success
            THEN [counted EXCEPT !.successful_requests = @ + 1,
                                 !.data_retrieved = @ + data_count]
            ELSE IF rate_limited
            THEN [counted EXCEPT !.rate_limited = @ + 1]
            ELSE [counted EXCEPT !.failed_requests = @ + 1])

---------------------------------------------------------------------------
(* TwitterAPIClient: search_tweets, save_tweets_to_db and the run          *)
(* fetch_ocean_hazard_tweets.                                              *)

NoEntities == EntDict(AbsentField, AbsentField, AbsentField)
BadHashtags == EntDict(ListField(<<NoKey>>), AbsentField, AbsentField)

\* The tweets a search may yield in a run.
RunTweets ==
    [id : PostIds, text : Texts \ {<<>>}, entities : {NoEntities, BadHashtags},
     geo : {GeoNone}, verified : {FALSE}, followers_count : {0},
     engagement : {0}]
    \cup
    [id : {"xyz"}, text : {<<>>}, entities : {NoEntities},
     geo : {GeoNone}, verified : {FALSE}, followers_count : {0},
     engagement : {0}]

\* for tweet in tweets: tweet_data = self._process_tweet(tweet);
\*                      if tweet_data: tweets_data.append(tweet_data)
RECURSIVE ProcessAll(_)
ProcessAll(stream) ==
    IF stream = <<>> THEN <<>>
    ELSE LET td == ProcessTweet(Head(stream))
         IN  (IF td.none THEN <<>> ELSE <<td>>) \o ProcessAll(Tail(stream))

\* post_data of save_tweets_to_db
TwPostRow(td, ml, t) ==
    [platform |-> "Twitter",
     post_id |-> td.tweet_id,
     content |-> td.text,
     location |-> td.location,
     hashtags |-> td.hashtags,
     mentions |-> td.mentions,
     is_verified_account |-> td.is_verified,
     is_disaster_related |-> IsDisasterOf(ml),
     disaster_confidence |-> ConfidenceOf(ml),
     sentiment |-> SentimentOf(ml),
     sentiment_confidence |-> SentimentConfidenceOf(ml),
     credibility_score |->
         TwCredibilityScore(td.is_verified, td.followers_count, td.engagement),
     last_analyzed |-> t]

\* A loop body that runs the classifier before it looks the tweet up.
TwSaveOneClassifyFirst(acc, td, fate, t) ==
    IF fate.ml.raises
    THEN [acc EXCEPT !.trace = @ \o <<Ev("classify", td.tweet_id),
                                      Ev("error", td.tweet_id)>>]
    ELSE IF ExistingPost(acc.posts, "Twitter", td.tweet_id)
    THEN [acc EXCEPT !.trace = @ \o <<Ev("classify", td.tweet_id),
                                      Ev("skip", td.tweet_id)>>]
    ELSE [posts |-> CreatePost(acc.posts, TwPostRow(td, fate.ml, t)),
          saved |-> acc.saved + 1,
          trace |-> acc.trace \o <<Ev("classify", td.tweet_id),
                                   Ev("insert", td.tweet_id)>>]

\* A loop body that counts the tweet before its insert is attempted.
TwSaveOneCountsAttempts(acc, td, fate, t) ==
    IF ExistingPost(acc.posts, "Twitter", td.tweet_id)
    THEN [acc EXCEPT !.trace = Append(@, Ev("skip", td.tweet_id))]
    ELSE IF fate.ml.raises
    THEN [acc EXCEPT !.trace = @ \o <<Ev("classify", td.tweet_id),
                                      Ev("error", td.tweet_id)>>]
    ELSE IF fate.create_raises
    THEN [acc EXCEPT !.saved = @ + 1,
                     !.trace = @ \o <<Ev("classify", td.tweet_id)>>
                                  \o VerdictEv(fate.ml, td.tweet_id)
                                  \o <<Ev("dberror", td.tweet_id)>>]
    ELSE [posts |-> CreatePost(acc.posts, TwPostRow(td, fate.ml, t)),
          saved |-> acc.saved + 1,
          trace |-> acc.trace \o <<Ev("classify", td.tweet_id)>>
                             \o VerdictEv(fate.ml, td.tweet_id)
                             \o <<Ev("insert", td.tweet_id)>>]

\* The body of the loop of save_tweets_to_db for one tweet. acc carries the
\* store, saved_count and the trace. Whatever raises inside the body is
\* caught by its `except Exception`, which goes on to the next tweet.
TwSaveOne(acc, td, fate, t) ==
    IF ExistingPost(acc.posts, "Twitter", td.tweet_id)
    THEN [acc EXCEPT !.trace = Append(@, Ev("skip", td.tweet_id))]
    ELSE IF fate.ml.raises
    THEN [acc EXCEPT !.trace = @ \o <<Ev("classify", td.tweet_id),
                                      Ev("error", td.tweet_id)>>]
    ELSE IF fate.create_raises
    THEN [acc EXCEPT !.trace = @ \o <<Ev("classify", td.tweet_id)>>
                                  \o VerdictEv(fate.ml, td.tweet_id)
                                  \o <<Ev("dberror", td.tweet_id)>>]
    ELSE [posts |-> CreatePost(acc.posts, TwPostRow(td, fate.ml, t)),
          saved |-> acc.saved + 1,
          trace |-> acc.trace \o <<Ev("classify", td.tweet_id)>>
                             \o VerdictEv(fate.ml, td.tweet_id)
                             \o <<Ev("insert", td.tweet_id)>>]

\* save_tweets_to_db from tweet i on; fates[i] is the fate of tweet i.
RECURSIVE TwSaveFrom(_, _, _, _, _)
TwSaveFrom(acc, tweets_data, fates, t, i) ==
    IF i > Len(tweets_data) THEN acc
    ELSE TwSaveFrom(TwSaveOne(acc, tweets_data[i], fates[i], t),
                    tweets_data, fates, t, i + 1)

SaveTweetsToDb(store, tweets_data, fates, t) ==
    TwSaveFrom([posts |-> store, saved |-> 0, trace |-> <<>>],
               tweets_data, fates, t, 1)

\* The keyword list of a run (the code's list has ten entries).
ocean_keywords == <<"tsunami OR \"tidal wave\"", "hurricane OR typhoon OR cyclone">>

\* The fates of the tweets of a batch. A tweet whose key is stored when the
\* batch starts is skipped before the classifier or the insert is reached,
\* so one fate stands for all of them.
FatesFor(store, tweets_data) ==
    {fates \in [1..Len(tweets_data) -> ItemFates] :
        \A i \in 1..Len(tweets_data) :
            ExistingPost(store, "Twitter", tweets_data[i].tweet_id)
                => fates[i] = Fate(MLRaises, FALSE)}

\* `for keyword in ocean_keywords`: after keyword u, a run that stops there.
TwNextStopsEarly(u) == [unit |-> u, pc |-> "tw_done"]

\* `for keyword in ocean_keywords`: after keyword u, the next keyword or the
\* end of the loop.
TwNext(u) ==
    IF u < Len(ocean_keywords)
    THEN [unit |-> u + 1, pc |-> "tw_search"]
    ELSE [unit |-> u, pc |-> "tw_done"]

NoProfile == [ok |-> FALSE, account_type |-> "PERSONAL"]

\* search_tweets: the usage table after the call, which collected
\* data_count tweets and then ended or raised.
SearchTweetsUsage(u, data_count, raises, t) ==
    IF raises
    THEN TwLogApiUsage(u, <<"search_recent_tweets">>, 0, FALSE, t)
    ELSE TwLogApiUsage(u, <<"search_recent_tweets">>, data_count, TRUE, t)

\* __init__ of either client: _setup_platform gets or creates the platform
\* record; when that raises it logs and re-raises, and no client exists.
SetupPlatform ==
    /\ pc = "new"
    /\ \E raises \in BOOLEAN : pc' = IF raises THEN "aborted" ELSE "idle"
    /\ UNCHANGED <<posts, usage, now, unit, items, profile, fetch_failed,
                   total_saved, trace>>
    /\ UNCHANGED offRun

\* fetch_ocean_hazard_tweets is entered.
TwStart ==
    /\ pc = "idle"
    /\ pc' = "tw_search"
    /\ unit' = 1
    /\ total_saved' = 0
    /\ UNCHANGED <<posts, usage, now, items, profile, fetch_failed, trace>>
    /\ UNCHANGED offRun

\* search_tweets for the current keyword. The paginator yields `stream` and
\* then either ends or raises; either way tweets_data is returned.
TwSearchTweets ==
    /\ pc = "tw_search"
    /\ \E stream \in SeqUpTo(RunTweets, MaxBatch), raises \in BOOLEAN,
          log_raises \in BOOLEAN :
          LET tweets_data == ProcessAll(stream)
          IN  /\ items' = tweets_data
              /\ fetch_failed' = raises
              /\ usage' = IF log_raises THEN usage
                          ELSE SearchTweetsUsage(usage, Len(tweets_data), raises,
                                                 now)
              /\ pc' = IF tweets_data # <<>> THEN "tw_save" ELSE "tw_sleep"
    /\ trace' = <<>>
    /\ UNCHANGED <<posts, now, unit, profile, total_saved>>
    /\ UNCHANGED offRun

\* if tweets: saved_count = self.save_tweets_to_db(tweets); total_saved += ...
TwSaveTweetsToDb ==
    /\ pc = "tw_save"
    /\ \E fates \in FatesFor(posts, items) :
          LET done == SaveTweetsToDb(posts, items, fates, now)
          IN  /\ posts' = done.posts
              /\ total_saved' = total_saved + done.saved
              /\ trace' = done.trace
    /\ items' = <<>>
    /\ pc' = "tw_sleep"
    /\ UNCHANGED <<usage, now, unit, profile, fetch_failed>>
    /\ UNCHANGED offRun

\* time.sleep(1), then the next keyword or the end of the run.
TwSleep ==
    /\ pc = "tw_sleep"
    /\ now' = now + 1
    /\ items' = <<>>
    /\ fetch_failed' = FALSE
    /\ trace' = <<>>
    /\ unit' = TwNext(unit).unit
    /\ pc' = TwNext(unit).pc
    /\ UNCHANGED <<posts, usage, profile, total_saved>>
    /\ UNCHANGED offRun

---------------------------------------------------------------------------
(* InstagramAPIClient: _make_api_request, get_user_profile,                *)
(* get_user_media, _analyze_and_save_media and the run                     *)
(* analyze_ocean_hazard_content.                                           *)

\* What requests.get comes back with: a status code (200 with a body that
\* is JSON, or one that is not), or an exception.
HttpOutcomes == {"200", "200 not json", "429", "500", "exception"}

\* _make_api_request: the usage table after the call. On status 200 the
\* success is logged before response.json() is evaluated; when that raises,
\* the except branch logs a failure as well.
MakeApiRequestUsage(u, endpoint, outcome, t) ==
    IF outcome = "200" THEN IgLogApiUsage(u, endpoint, 1, TRUE, FALSE, t)
    ELSE IF outcome = "200 not json"
    THEN IgLogApiUsage(IgLogApiUsage(u, endpoint, 1, TRUE, FALSE, t),
                       endpoint, 0, FALSE, FALSE, t)
    ELSE IF outcome = "429" THEN IgLogApiUsage(u, endpoint, 0, FALSE, TRUE, t)
    ELSE IgLogApiUsage(u, endpoint, 0, FALSE, FALSE, t)

\* _make_api_request: whether the call returns the response's JSON (not None).
MakeApiRequestOk(outcome) == outcome = "200"

\* The accounts of a run (user_ids).
user_ids == <<"me", "ocean_watch">>

MediaEndpoint(user_id) == <<user_id, "media">>
InsightsEndpoint(media_id) == <<media_id, "insights">>
ProfileEndpoint(user_id) == <<user_id>>

\* The media a page may hold in a run: an id and a caption ('' when absent).
RunMedia == [id : PostIds, caption : Texts]

\* Insights are served for business accounts only; for any other account the
\* insights request is answered with an error status.
InsightsOutcome(prof) == IF prof.account_type = "BUSINESS" THEN "200" ELSE "500"

\* _process_media_item: media_data, with the insights when the request for
\* them succeeded.
ProcessMediaItem(media, outcome) ==
    [id |-> media.id, caption |-> media.caption,
     has_insights |-> MakeApiRequestOk(outcome),
     engagement |-> IF MakeApiRequestOk(outcome) THEN 150 ELSE 0,
     reach |-> 0,
     impressions |-> IF MakeApiRequestOk(outcome) THEN 2000 ELSE 0]

\* The loop of get_user_media over response['data'] from item i on: each
\* item costs one insights request, which is logged.
RECURSIVE ProcessMediaFrom(_, _, _, _, _)
ProcessMediaFrom(acc, data, prof, t, i) ==
    IF i > Len(data) THEN acc
    ELSE ProcessMediaFrom(
            [usage |-> MakeApiRequestUsage(acc.usage, InsightsEndpoint(data[i].id),
                                           InsightsOutcome(prof), t),
             media_data |-> Append(acc.media_data,
                                   ProcessMediaItem(data[i], InsightsOutcome(prof)))],
            data, prof, t, i + 1)

\* get_user_media: the usage table and the media_data list it leaves.
GetUserMedia(u, user_id, outcome, data, prof, t) ==
    IF MakeApiRequestOk(outcome)
    THEN ProcessMediaFrom(
            [usage |-> MakeApiRequestUsage(u, MediaEndpoint(user_id), outcome, t),
             media_data |-> <<>>],
            data, prof, t, 1)
    ELSE [usage |-> MakeApiRequestUsage(u, MediaEndpoint(user_id), outcome, t),
          media_data |-> <<>>]

\* if not is_disaster_related or disaster_confidence < 0.3: return False
GateRejects(is_disaster_related, disaster_confidence) ==
    (~is_disaster_related) \/ disaster_confidence < 30

\* post_data of _analyze_and_save_media
IgPostRow(media, prof, ml, t) ==
    [platform |-> "Instagram",
     post_id |-> media.id,
     content |-> media.caption,
     hashtags |-> ExtractHashtags(media.caption),
     mentions |-> ExtractMentions(media.caption),
     is_verified_account |-> (prof.account_type = "BUSINESS"),
     is_disaster_related |-> IsDisasterOf(ml),
     disaster_confidence |-> ConfidenceOf(ml),
     sentiment |-> SentimentOf(ml),
     sentiment_confidence |-> SentimentConfidenceOf(ml),
     credibility_score |->
         IgCredibilityScore(prof.account_type = "BUSINESS", media.engagement,
                            media.reach, media.impressions),
     last_analyzed |-> t]

\* _analyze_and_save_media: the store it leaves, what it returns (saved) and
\* the trace of what it did. Whatever raises inside is caught by its
\* `except Exception`, which returns False.
AnalyzeAndSaveMedia(store, media, prof, fate, t) ==
    IF ExistingPost(store, "Instagram", media.id)
    THEN [posts |-> store, saved |-> FALSE, trace |-> <<Ev("skip", media.id)>>]
    ELSE IF media.caption = <<>>
    THEN [posts |-> store, saved |-> FALSE, trace |-> <<Ev("nocaption", media.id)>>]
    ELSE IF fate.ml.raises
    THEN [posts |-> store, saved |-> FALSE,
          trace |-> <<Ev("classify", media.id), Ev("error", media.id)>>]
    ELSE IF GateRejects(IsDisasterOf(fate.ml), ConfidenceOf(fate.ml))
    THEN [posts |-> store, saved |-> FALSE,
          trace |-> <<Ev("classify", media.id)>> \o VerdictEv(fate.ml, media.id)
                       \o <<Ev("reject", media.id)>>]
    ELSE IF fate.create_raises
    THEN [posts |-> store, saved |-> FALSE,
          trace |-> <<Ev("classify", media.id), Ev("dberror", media.id)>>]
    ELSE [posts |-> CreatePost(store, IgPostRow(media, prof, fate.ml, t)),
          saved |-> TRUE,
          trace |-> <<Ev("classify", media.id), Ev("insert", media.id)>>]

\* `for user_id in user_ids`: after account u, the next account or the end
\* of the loop.
IgNext(u) ==
    IF u < Len(user_ids)
    THEN [unit |-> u + 1, pc |-> "ig_profile"]
    ELSE [unit |-> u, pc |-> "ig_done"]

\* analyze_ocean_hazard_content is entered.
IgStart ==
    /\ pc = "idle"
    /\ pc' = "ig_profile"
    /\ unit' = 1
    /\ total_saved' = 0
    /\ UNCHANGED <<posts, usage, now, items, profile, fetch_failed, trace>>
    /\ UNCHANGED offRun

\* profile = self.get_user_profile(user_id); if not profile: continue
IgGetUserProfile ==
    /\ pc = "ig_profile"
    /\ \E outcome \in HttpOutcomes, account_type \in {"BUSINESS", "PERSONAL"},
          log_raises \in BOOLEAN :
          /\ usage' = IF log_raises THEN usage
                      ELSE MakeApiRequestUsage(usage, ProfileEndpoint(user_ids[unit]),
                                               outcome, now)
          /\ IF MakeApiRequestOk(outcome)
             THEN /\ profile' = [ok |-> TRUE, account_type |-> account_type]
                  /\ fetch_failed' = FALSE
                  /\ pc' = "ig_media"
                  /\ unit' = unit
             ELSE /\ profile' = NoProfile
                  /\ fetch_failed' = TRUE
                  /\ unit' = IgNext(unit).unit
                  /\ pc' = IgNext(unit).pc
    /\ trace' = <<>>
    /\ UNCHANGED <<posts, now, items, total_saved>>
    /\ UNCHANGED offRun

\* media_items = self.get_user_media(user_id, limit=50)
IgGetUserMedia ==
    /\ pc = "ig_media"
    /\ \E outcome \in HttpOutcomes, data \in SeqUpTo(RunMedia, MaxMedia),
          log_raises \in BOOLEAN :
          LET got == GetUserMedia(usage, user_ids[unit], outcome, data, profile, now)
          IN  /\ usage' = IF log_raises THEN usage ELSE got.usage
              /\ items' = got.media_data
              /\ fetch_failed' = ~MakeApiRequestOk(outcome)
              /\ pc' = IF got.media_data # <<>> THEN "ig_analyze" ELSE "ig_sleep"
    /\ UNCHANGED <<posts, now, unit, profile, total_saved, trace>>
    /\ UNCHANGED offRun

\* One pass of `for media in media_items`:
\*     if self._analyze_and_save_media(media, profile): total_analyzed += 1
IgAnalyzeAndSaveMedia ==
    /\ pc = "ig_analyze"
    /\ \E fate \in ItemFates :
          LET done == AnalyzeAndSaveMedia(posts, Head(items), profile, fate, now)
          IN  /\ posts' = done.posts
              /\ total_saved' = total_saved + (IF done.saved THEN 1 ELSE 0)
              /\ trace' = done.trace
    /\ items' = Tail(items)
    /\ pc' = IF Tail(items) # <<>> THEN "ig_analyze" ELSE "ig_sleep"
    /\ UNCHANGED <<usage, now, unit, profile, fetch_failed>>
    /\ UNCHANGED offRun

\* time.sleep(2), then the next account or the end of the run.
IgSleep ==
    /\ pc = "ig_sleep"
    /\ now' = now + 2
    /\ items' = <<>>
    /\ profile' = NoProfile
    /\ fetch_failed' = FALSE
    /\ trace' = <<>>
    /\ unit' = IgNext(unit).unit
    /\ pc' = IgNext(unit).pc
    /\ UNCHANGED <<posts, usage, total_saved>>
    /\ UNCHANGED offRun

---------------------------------------------------------------------------
(* Values of the variables a specification does not use.                   *)

NoScorerCall ==
    [fn |-> "none", phase |-> "out", flag |-> FALSE, followers_count |-> 0,
     engagement |-> 0, reach |-> 0, impressions |-> 0, score |-> 0]

NoNormalizerCall ==
    [fn |-> "none", phase |-> "out", tweet |-> <<>>, caption |-> <<>>,
     dropped |-> FALSE, hashtags |-> <<>>, mentions |-> <<>>, urls |-> <<>>,
     location |-> NoLocation]

\* No _log_api_usage call was made yet.
NoObservation ==
    [made |-> FALSE, platform |-> "-", endpoint |-> <<>>, hour |-> 0,
     data_count |-> 0, success |-> FALSE, rate_limited |-> FALSE]

\* No interleaved callers.
NoProcs == <<>>

NoReports == [rows |-> <<>>, next_id |-> 1]

NoRequest ==
    [op |-> "none", caller |-> "-", id |-> 0, code |-> 0, error |-> "-",
     sent_user |-> "-", sent_status |-> "-", owner |-> "-", before |-> <<>>]

---------------------------------------------------------------------------
(* One run of a client.                                                    *)

\* A row an earlier Twitter run stored.
OldTweet ==
    TwPostRow(ProcessTweet([id |-> "abc", text |-> <<"a">>, entities |-> NoEntities,
                            geo |-> GeoNone, verified |-> FALSE,
                            followers_count |-> 0, engagement |-> 0]),
              MLVerdict(TRUE, 80), 0)

\* A row an earlier Instagram run stored.
OldMedia ==
    IgPostRow(ProcessMediaItem([id |-> "abc", caption |-> <<"#", "a">>], "500"),
              [ok |-> TRUE, account_type |-> "PERSONAL"], MLVerdict(TRUE, 80), 0)

\* The store a run starts from holds what earlier runs stored: post abc on
\* either platform, so that a run meets both known and new posts.
InitialStores == {SetToBag({OldTweet, OldMedia})}

Init ==
    /\ posts \in InitialStores
    /\ usage = {}
    /\ now = 1
    /\ pc = "new"
    /\ unit = 0
    /\ items = <<>>
    /\ profile = NoProfile
    /\ fetch_failed = FALSE
    /\ total_saved = 0
    /\ trace = <<>>
    /\ calls = EmptyBag
    /\ sc = NoScorerCall
    /\ nz = NoNormalizerCall
    /\ reports = NoReports
    /\ resp = NoRequest
    /\ obs = NoObservation
    /\ procs = NoProcs

Next ==
    \/ SetupPlatform
    \/ TwStart
    \/ TwSearchTweets
    \/ TwSaveTweetsToDb
    \/ TwSleep
    \/ IgStart
    \/ IgGetUserProfile
    \/ IgGetUserMedia
    \/ IgAnalyzeAndSaveMedia
    \/ IgSleep

Spec == Init /\ [][Next]_vars

---------------------------------------------------------------------------
(* Properties of a run.                                                    *)

\* The trace holds the event.
TraceHas(tr, what, post_id) == \E i \in 1..Len(tr) : tr[i] = Ev(what, post_id)

\* The trace holds event `first` of a post before event `then` of the same post.
TraceOrder(tr, first, then, post_id) ==
    \E i, j \in 1..Len(tr) :
        i < j /\ tr[i] = Ev(first, post_id) /\ tr[j] = Ev(then, post_id)

\* The rows of a key, with their multiplicities.
KeyBag(store, platform, post_id) ==
    [r \in RowsOf(store, platform, post_id) |-> store[r]]

\* C1. Post idempotence under serial execution: whatever payloads the runs
\* ingest, however often, the store holds at most one SocialMediaPost per
\* (platform, post_id).
C1_PostIdempotence ==
    \A platform \in Platforms, post_id \in PostIds :
        CountOf(posts, platform, post_id) <= 1

\* A batch held the same tweet twice: the first was inserted, the second
\* skipped, and the store holds one row for it.
C1_Witness ==
    \E post_id \in PostIds :
        /\ TraceOrder(trace, "insert", "skip", post_id)
        /\ CountOf(posts, "Twitter", post_id) = 1

\* C2. Gate law, for every platform ingestor: no record is persisted for an
\* item classified is_disaster_related = false or disaster_confidence < 0.3;
\* so every stored row carries a verdict that passes the gate.
C2_GateLaw ==
    \A r \in BagToSet(posts) :
        r.is_disaster_related /\ r.disaster_confidence >= 30

\* C9. Duplicate skip has no effect: an ingest step leaves the rows of every
\* key that was already persisted as they were (last_analyzed included), does
\* not call the classifier for an item whose key was already persisted, and
\* never classifies an item after the step itself inserted its key.
C9_DuplicateSkipHasNoEffect ==
    [][ /\ \A platform \in Platforms, post_id \in PostIds :
              ExistingPost(posts, platform, post_id)
                  => KeyBag(posts', platform, post_id)
                         = KeyBag(posts, platform, post_id)
        /\ \A post_id \in PostIds :
              /\ (pc = "tw_save" /\ ExistingPost(posts, "Twitter", post_id))
                     => ~TraceHas(trace', "classify", post_id)
              /\ (pc = "ig_analyze" /\ ExistingPost(posts, "Instagram", post_id))
                     => ~TraceHas(trace', "classify", post_id)
              /\ ~TraceOrder(trace', "insert", "classify", post_id)
      ]_vars

\* A tweet that an earlier hour stored came again and was skipped.
C9_Witness ==
    \E post_id \in PostIds :
        /\ pc = "tw_sleep"
        /\ TraceHas(trace, "skip", post_id)
        /\ ~TraceHas(trace, "insert", post_id)
        /\ \E r \in RowsOf(posts, "Twitter", post_id) : r.last_analyzed < now

\* C11. Classifier failure or empty result is a non-error rejection: when the
\* classifier raises or returns a result without verdicts for an item, the
\* verdict defaults to (false, 0.0, 'neutral', 0.0), the item is not
\* persisted and no error escapes the step: in the trace of a step, "error"
\* and "default" come right after the one classifier call for the item and
\* are never followed by the insert of that item, and no stored row carries
\* the default verdict.
C11_ClassifierFailureRejects ==
    /\ \A i \in 1..Len(trace) :
          trace[i].ev \in {"error", "default"}
              => /\ i > 1 /\ trace[i - 1] = Ev("classify", trace[i].post_id)
                 /\ i < Len(trace)
                       => trace[i + 1] # Ev("insert", trace[i].post_id)
    /\ \A r \in BagToSet(posts) :
          ~(/\ ~r.is_disaster_related /\ r.disaster_confidence = 0
            /\ r.sentiment = "neutral" /\ r.sentiment_confidence = 0)

\* C12. Items without analyzable text are skipped, for every platform
\* ingestor: an item whose text is empty is neither passed to the classifier
\* nor persisted. A Twitter step asks the classifier nothing about a post
\* whose items in the batch all lack text and leaves the rows of its key as
\* they were; an Instagram step on a media item without caption asks the
\* classifier nothing and leaves the store as it was.
C12_EmptyTextSkipped ==
    [][ /\ pc = "tw_save" =>
              \A post_id \in PostIds :
                  (/\ \E i \in 1..Len(items) : items[i].tweet_id = post_id
                   /\ \A i \in 1..Len(items) :
                         items[i].tweet_id = post_id => items[i].text = <<>>)
                      => /\ ~TraceHas(trace', "classify", post_id)
                         /\ KeyBag(posts', "Twitter", post_id)
                                = KeyBag(posts, "Twitter", post_id)
        /\ (pc = "ig_analyze" /\ Head(items).caption = <<>>)
              => /\ ~TraceHas(trace', "classify", Head(items).id)
                 /\ posts' = posts
      ]_vars

\* C10. Fetch failure abandons the unit of work: after the fetch of a keyword
\* or an account failed, no ingest step of that unit changes the post store.
C10_FetchFailureAbandonsUnit ==
    [][ (fetch_failed /\ pc \in {"tw_save", "ig_analyze"}) => posts' = posts ]_vars

\* C18. Units of work are strictly sequential with an interposed pause: the
\* run moves on from one keyword or account to the next only in a step in
\* which the pause elapses, on every path through the unit, the path where
\* its fetch failed included.
C18_SequentialWithPause ==
    [][ (pc # "idle" /\ unit' # unit) => (unit' = unit + 1 /\ now' > now) ]_vars

\* A run whose every step completes: each outbound call, classifier call and
\* database call returns or raises, and the pauses end.
SpecLive == Spec /\ WF_vars(Next)

StoreBefore == CHOOSE store \in InitialStores : TRUE

\* The rows of the store that the run found there are still there, each as
\* often as before.
RecordsAdded == BagCardinality(posts (-) StoreBefore)

\* C21. The returned count equals the records added: at every point of a run
\* of fetch_ocean_hazard_tweets or of analyze_ocean_hazard_content, the count
\* the run would return is the number of rows the store holds now and did not
\* hold before the run; each call of save_tweets_to_db and of
\* _analyze_and_save_media adds to the count exactly the rows it adds to the
\* store, whatever mix of duplicate, rejected, failing and admitted items it
\* is given; and no step removes or changes a row that is stored.
C21_ReturnedCountEqualsAdded ==
    /\ [](StoreBefore \sqsubseteq posts /\ total_saved = RecordsAdded)
    /\ [][ /\ posts \sqsubseteq posts'
           /\ total_saved' - total_saved
                  = BagCardinality(posts') - BagCardinality(posts)
         ]_vars

\* The run is over the last keyword, whose batch held the same new tweet
\* twice: the first insert raised and the second went through; the count
\* stands at the one row added.
C21_Witness ==
    /\ pc = "tw_sleep" /\ unit = Len(ocean_keywords)
    /\ total_saved = 1
    /\ RecordsAdded = 1
    /\ \E post_id \in PostIds :
          /\ TraceHas(trace, "dberror", post_id)
          /\ TraceHas(trace, "insert", post_id)

---------------------------------------------------------------------------
(* SpecUsage: serial calls of _log_api_usage while the clock advances.     *)

\* Calls in one behaviour.
MaxObs == 3
\* Last tick of the clock.
MaxClock == 2

BucketKey(platform, endpoint, hour) ==
    [platform |-> platform, endpoint |-> endpoint, hour |-> hour]

\* The arguments of a _log_api_usage call (the Twitter logger takes no
\* rate_limited argument).
Observation(platform, endpoint, data_count, success, rate_limited, t) ==
    [made |-> TRUE, platform |-> platform, endpoint |-> endpoint,
     hour |-> Hour(t), data_count |-> data_count, success |-> success,
     rate_limited |-> rate_limited]

ParkedRun ==
    /\ posts = EmptyBag
    /\ pc = "off"
    /\ unit = 0
    /\ items = <<>>
    /\ profile = NoProfile
    /\ fetch_failed = FALSE
    /\ total_saved = 0
    /\ trace = <<>>

offUsage == <<posts, pc, unit, items, profile, fetch_failed, total_saved, trace,
              sc, nz, reports, resp, procs>>

InitUsage ==
    /\ ParkedRun
    /\ usage = {}
    /\ now = 0
    /\ calls = EmptyBag
    /\ sc = NoScorerCall
    /\ nz = NoNormalizerCall
    /\ reports = NoReports
    /\ resp = NoRequest
    /\ obs = NoObservation
    /\ procs = NoProcs

\* TwitterAPIClient._log_api_usage is called.
UsTwLogApiUsage ==
    /\ BagCardinality(calls) < MaxObs
    /\ \E data_count \in {0, 2}, success \in BOOLEAN :
          /\ usage' = TwLogApiUsage(usage, <<"search_recent_tweets">>, data_count,
                                    success, now)
          /\ obs' = Observation("Twitter", <<"search_recent_tweets">>, data_count,
                                success, FALSE, now)
    /\ calls' = calls (+) SetToBag({BucketKey("Twitter", <<"search_recent_tweets">>,
                                              Hour(now))})
    /\ UNCHANGED now
    /\ UNCHANGED offUsage

\* InstagramAPIClient._log_api_usage is called.
UsIgLogApiUsage ==
    /\ BagCardinality(calls) < MaxObs
    /\ \E endpoint \in {<<"me">>, <<"me", "media">>}, data_count \in {0, 1},
          success \in BOOLEAN, is_rate_limited \in BOOLEAN :
          /\ usage' = IgLogApiUsage(usage, endpoint, data_count, success,
                                    is_rate_limited, now)
          /\ calls' = calls (+) SetToBag({BucketKey("Instagram", endpoint, Hour(now))})
          /\ obs' = Observation("Instagram", endpoint, data_count, success,
                                is_rate_limited, now)
    /\ UNCHANGED now
    /\ UNCHANGED offUsage

\* Time passes.
UsTick ==
    /\ now < MaxClock
    /\ now' = now + 1
    /\ UNCHANGED <<usage, calls, obs>>
    /\ UNCHANGED offUsage

NextUsage == UsTwLogApiUsage \/ UsIgLogApiUsage \/ UsTick

SpecUsage == InitUsage /\ [][NextUsage]_vars

CounterOf(u, o, counter) ==
    IF BucketsOf(u, o.platform, o.endpoint, o.hour) = {} THEN 0
    ELSE (CHOOSE r \in BucketsOf(u, o.platform, o.endpoint, o.hour) : TRUE)[counter]

Counters ==
    {"requests_made", "successful_requests", "failed_requests", "rate_limited",
     "data_retrieved"}

\* What the call o adds to a counter.
AddedBy(o, counter) ==
    CASE counter = "requests_made" -> 1
      [] counter = "successful_requests" -> IF o.success THEN 1 ELSE 0
      [] counter = "rate_limited" ->
            IF ~o.success /\ o.rate_limited THEN 1 ELSE 0
      [] counter = "failed_requests" ->
            IF ~o.success /\ ~o.rate_limited THEN 1 ELSE 0
      [] counter = "data_retrieved" -> IF o.success THEN o.data_count ELSE 0

---------------------------------------------------------------------------
(* SpecCalls: outbound platform calls, one after another, while the clock  *)
(* advances. calls counts the call attempts per bucket key.                *)

offCalls == <<posts, pc, unit, items, profile, fetch_failed, total_saved, trace,
              sc, nz, reports, resp, obs, procs>>

InitCalls ==
    /\ ParkedRun
    /\ usage = {}
    /\ now = 0
    /\ calls = EmptyBag
    /\ sc = NoScorerCall
    /\ nz = NoNormalizerCall
    /\ reports = NoReports
    /\ resp = NoRequest
    /\ obs = NoObservation
    /\ procs = NoProcs

\* InstagramAPIClient._make_api_request(endpoint)
CaMakeApiRequest ==
    /\ BagCardinality(calls) < MaxObs
    /\ \E endpoint \in {ProfileEndpoint("me"), MediaEndpoint("me")},
          outcome \in HttpOutcomes :
          /\ usage' = MakeApiRequestUsage(usage, endpoint, outcome, now)
          /\ calls' = calls (+) SetToBag({BucketKey("Instagram", endpoint, Hour(now))})
    /\ UNCHANGED now
    /\ UNCHANGED offCalls

\* TwitterAPIClient.search_tweets(query)
CaSearchTweets ==
    /\ BagCardinality(calls) < MaxObs
    /\ \E data_count \in {0, 2}, raises \in BOOLEAN :
          usage' = SearchTweetsUsage(usage, data_count, raises, now)
    /\ calls' = calls (+) SetToBag({BucketKey("Twitter", <<"search_recent_tweets">>,
                                              Hour(now))})
    /\ UNCHANGED now
    /\ UNCHANGED offCalls

\* TwitterAPIClient.get_trending_topics(): self.api.get_place_trends(woeid),
\* which returns or raises; neither path calls _log_api_usage.
CaGetTrendingTopics ==
    /\ BagCardinality(calls) < MaxObs
    /\ calls' = calls (+) SetToBag({BucketKey("Twitter", <<"get_place_trends">>,
                                              Hour(now))})
    /\ UNCHANGED <<usage, now>>
    /\ UNCHANGED offCalls

\* Time passes.
CaTick ==
    /\ now < MaxClock
    /\ now' = now + 1
    /\ UNCHANGED <<usage, calls>>
    /\ UNCHANGED offCalls

NextCalls == CaMakeApiRequest \/ CaSearchTweets \/ CaGetTrendingTopics \/ CaTick

SpecCalls == InitCalls /\ [][NextCalls]_vars

\* C15. Every outbound call is observed exactly once: requests_made of an
\* endpoint's bucket equals the number of call attempts made to that endpoint
\* in that hour, for the Instagram requests on every response path and for
\* the Twitter search and trending-topics calls.
C15_EveryCallObservedOnce ==
    /\ \A k \in BagToSet(calls) :
          /\ Cardinality(BucketsOf(usage, k.platform, k.endpoint, k.hour)) = 1
          /\ \A r \in BucketsOf(usage, k.platform, k.endpoint, k.hour) :
                r.requests_made = CopiesIn(k, calls)
    /\ \A r \in usage :
          r.requests_made = CopiesIn(BucketKey(r.platform, r.endpoint, r.hour), calls)

---------------------------------------------------------------------------
(* SpecScorer: the credibility scorers applied to drawn arguments.         *)

\* Argument values on both sides of every threshold.
FollowerCounts == {0, 1000, 1001, 10000, 10001, 100000, 100001, 1000000, 1000001}
Engagements == {0, 10, 11, 100, 101, 1000, 1001}
Reaches == {0, 1000, 1001, 10000, 10001}
ImpressionCounts == {0, 1001, 10001}

\* A call of TwitterAPIClient._calculate_credibility_score about to run.
TwScorerCalls ==
    [fn : {"twitter"}, phase : {"in"}, flag : BOOLEAN,
     followers_count : FollowerCounts, engagement : Engagements,
     reach : {0}, impressions : {0}, score : {0}]

\* A call of InstagramAPIClient._calculate_credibility_score about to run.
IgScorerCalls ==
    [fn : {"instagram"}, phase : {"in"}, flag : BOOLEAN,
     followers_count : {0}, engagement : Engagements,
     reach : Reaches, impressions : ImpressionCounts, score : {0}]

offScorer == <<posts, usage, now, pc, unit, items, profile, fetch_failed,
               total_saved, trace, calls, nz, reports, resp, obs, procs>>

InitScorer ==
    /\ ParkedRun
    /\ usage = {}
    /\ now = 0
    /\ calls = EmptyBag
    /\ sc \in TwScorerCalls \cup IgScorerCalls
    /\ nz = NoNormalizerCall
    /\ reports = NoReports
    /\ resp = NoRequest
    /\ obs = NoObservation
    /\ procs = NoProcs

\* TwitterAPIClient._calculate_credibility_score returns.
ScTwCalculateCredibilityScore ==
    /\ sc.fn = "twitter" /\ sc.phase = "in"
    /\ sc' = [sc EXCEPT !.phase = "out",
                        !.score = TwCredibilityScore(sc.flag, sc.followers_count,
                                                     sc.engagement)]
    /\ UNCHANGED offScorer

\* InstagramAPIClient._calculate_credibility_score returns.
ScIgCalculateCredibilityScore ==
    /\ sc.fn = "instagram" /\ sc.phase = "in"
    /\ sc' = [sc EXCEPT !.phase = "out",
                        !.score = IgCredibilityScore(sc.flag, sc.engagement,
                                                     sc.reach, sc.impressions)]
    /\ UNCHANGED offScorer

NextScorer == ScTwCalculateCredibilityScore \/ ScIgCalculateCredibilityScore

SpecScorer == InitScorer /\ [][NextScorer]_vars

\* No bonus condition of the scorer is met by the call's arguments.
NoBonus(c) ==
    /\ ~c.flag
    /\ c.followers_count <= 1000
    /\ c.engagement <= 10
    /\ c.reach <= 1000
    /\ (c.reach = 0 => c.impressions <= 1000)

\* C6. Scorer bounds: on either platform the score lies in [0.0, 1.0], and it
\* is exactly 0.5 when no bonus condition is met.
C6_ScorerBounds ==
    (sc.fn # "none" /\ sc.phase = "out")
        => /\ sc.score >= 0 /\ sc.score <= 100
           /\ (NoBonus(sc) => sc.score = 50)

\* An Instagram call whose bonuses add up to more than 1.0 returned 1.0.
C6_Witness ==
    /\ sc.fn = "instagram" /\ sc.phase = "out"
    /\ sc.flag /\ sc.engagement > 1000 /\ sc.reach > 10000
    /\ sc.score = 100

\* A tier table of the specification: x > above earns bonus.
Tier(above, bonus) == [above |-> above, bonus |-> bonus]
FollowerTiers == {Tier(1000000, 20), Tier(100000, 15), Tier(10000, 10), Tier(1000, 5)}

\* The bonus of the single highest tier that x matches; 0 when it matches none.
HighestTierBonus(tiers, x) ==
    LET matching == {tr \in tiers : x > tr.above}
    IN  IF matching = {} THEN 0
        ELSE (CHOOSE tr \in matching : \A o \in matching : o.above <= tr.above).bonus

\* C7. Scorer tier exclusivity: what the follower count adds to the score is
\* the bonus of the single highest matching tier (>1,000,000: +0.2,
\* >100,000: +0.15, >10,000: +0.1, >1,000: +0.05, otherwise 0), and what the
\* engagement volume adds is the bonus of one matching tier of its chain, the
\* highest, or nothing.
C7_TierExclusivity ==
    /\ (sc.fn = "twitter" /\ sc.phase = "out")
          => /\ sc.score - TwCredibilityScore(sc.flag, 0, sc.engagement)
                    = HighestTierBonus(FollowerTiers, sc.followers_count)
             /\ sc.score - TwCredibilityScore(sc.flag, sc.followers_count, 0)
                    = HighestTierBonus({Tier(100, 10), Tier(10, 5)}, sc.engagement)
    /\ (sc.fn = "instagram" /\ sc.phase = "out")
          => LET sum == 50 + (IF sc.flag THEN 20 ELSE 0)
                           + HighestTierBonus({Tier(1000, 20), Tier(100, 15),
                                               Tier(10, 10)}, sc.engagement)
                           + HighestTierBonus({Tier(10000, 15), Tier(1000, 10)},
                                              IF sc.reach # 0 THEN sc.reach
                                              ELSE sc.impressions)
             IN  sc.score = IF sum > 100 THEN 100 ELSE sum

\* A verified account with more than a million followers (every follower tier
\* matches) got the top tier's bonus alone.
C7_Witness ==
    /\ sc.fn = "twitter" /\ sc.phase = "out"
    /\ sc.followers_count > 1000000
    /\ sc.engagement > 100
    /\ sc.score = 100

---------------------------------------------------------------------------
(* SpecNormalizer: _process_tweet and the caption parsers applied to drawn *)
(* payloads.                                                               *)

\* Longest caption drawn.
MaxLen == 3

HashtagFields ==
    {AbsentField, ListField(<<>>), ListField(<<"tsunami">>),
     ListField(<<"tsunami", "emergency">>), ListField(<<NoKey>>),
     ListField(<<"tsunami", NoKey>>)}
MentionFields == {AbsentField, ListField(<<"noaa">>), ListField(<<NoKey>>)}
UrlFields == {AbsentField, ListField(<<"http://t.co/x">>), ListField(<<NoKey>>)}

\* tweet.entities: None, or a dict of well-formed or malformed entity lists.
DrawnEntities ==
    {EntNone} \cup {EntDict(h, m, u) : h \in HashtagFields, m \in MentionFields,
                                       u \in UrlFields}

\* tweet.geo: None, a place reference, a point, 'coordinates' that is no dict,
\* a coordinates dict without the inner list, an inner list of the wrong length.
DrawnGeos ==
    {GeoNone,
     GeoDict(FALSE, FALSE, FALSE, <<>>, TRUE),
     GeoDict(TRUE, TRUE, TRUE, <<72, 19>>, FALSE),
     GeoDict(TRUE, FALSE, FALSE, <<>>, FALSE),
     GeoDict(TRUE, TRUE, FALSE, <<>>, TRUE),
     GeoDict(TRUE, TRUE, TRUE, <<72>>, FALSE),
     GeoDict(TRUE, TRUE, TRUE, <<72, 19, 0>>, FALSE)}

DrawnTweets ==
    [id : {"abc"}, text : {<<"a">>}, entities : DrawnEntities, geo : DrawnGeos,
     verified : {FALSE}, followers_count : {0}, engagement : {0}]

\* A payload is malformed when an entity list or the geo block cannot be read.
Malformed(tweet) == GeoRaises(tweet.geo) \/ EntitiesRaise(tweet.entities)

offNormalizer == <<posts, usage, now, pc, unit, items, profile, fetch_failed,
                   total_saved, trace, calls, sc, reports, resp, obs, procs>>

InitNormalizer ==
    /\ ParkedRun
    /\ usage = {}
    /\ now = 0
    /\ calls = EmptyBag
    /\ sc = NoScorerCall
    /\ \/ \E tweet \in DrawnTweets :
             nz = [NoNormalizerCall EXCEPT !.fn = "process_tweet", !.phase = "in",
                                           !.tweet = <<tweet>>]
       \/ \E caption \in SeqUpTo(Chars, MaxLen) :
             nz = [NoNormalizerCall EXCEPT !.fn = "extract", !.phase = "in",
                                           !.caption = caption]
    /\ reports = NoReports
    /\ resp = NoRequest
    /\ obs = NoObservation
    /\ procs = NoProcs

\* TwitterAPIClient._process_tweet returns: a normalized tweet, or None, which
\* search_tweets drops.
NzProcessTweet ==
    /\ nz.fn = "process_tweet" /\ nz.phase = "in"
    /\ LET td == ProcessTweet(nz.tweet[1])
       IN  nz' = IF td.none
                 THEN [nz EXCEPT !.phase = "out", !.dropped = TRUE]
                 ELSE [nz EXCEPT !.phase = "out", !.hashtags = td.hashtags,
                                 !.mentions = td.mentions, !.urls = td.urls,
                                 !.location = td.location]
    /\ UNCHANGED offNormalizer

\* InstagramAPIClient._extract_hashtags and _extract_mentions return.
NzExtract ==
    /\ nz.fn = "extract" /\ nz.phase = "in"
    /\ nz' = [nz EXCEPT !.phase = "out",
                        !.hashtags = ExtractHashtags(nz.caption),
                        !.mentions = ExtractMentions(nz.caption)]
    /\ UNCHANGED offNormalizer

NextNormalizer == NzProcessTweet \/ NzExtract

SpecNormalizer == InitNormalizer /\ [][NextNormalizer]_vars

\* C8. Normalizer is total: for any raw payload, malformed entity or geo
\* fields included, the normalizer does not raise and yields a normalized
\* result (the item is not dropped) in which the fields of a malformed
\* payload are empty and its location is unset.
C8_NormalizerTotal ==
    (nz.fn = "process_tweet" /\ nz.phase = "out")
        => /\ ~nz.dropped
           /\ Malformed(nz.tweet[1])
                 => /\ nz.hashtags = <<>> /\ nz.mentions = <<>> /\ nz.urls = <<>>
                    /\ ~nz.location.set

---------------------------------------------------------------------------
(* SpecReports: the hazard-report API (HazardReportViewSet with            *)
(* HazardReportSerializer). A row keeps the owner, the description and the *)
(* status; latitude, longitude and media_url are written the way the       *)
(* description is.                                                         *)

\* Reports created in one behaviour.
MaxReports == 2

Users == {"alice", "bob"}
\* request.user of a request that carries no credential.
Anonymous == "AnonymousUser"
Callers == Users \cup {Anonymous}

\* HazardReport.UNVERIFIED, the default of HazardReport.status.
UNVERIFIED == "unverified"
VERIFIED == "verified"

\* Meta.read_only_fields, as far as a request body can name them.
ReadOnlyFields == {"user", "status"}

\* Request bodies: the fields the client sent, and their values ("-" for a
\* field it did not send).
Bodies ==
    {b \in [present : SUBSET {"description", "user", "status"},
            description : {"-", "oil spill", "rogue wave"},
            user : {"-", "bob"},
            status : {"-", VERIFIED}] :
        /\ ("description" \in b.present) <=> (b.description # "-")
        /\ ("user" \in b.present) <=> (b.user # "-")
        /\ ("status" \in b.present) <=> (b.status # "-")}

\* A serializer that lets the client write the owner.
ValidatedDataOwnerWritable(body) ==
    [body EXCEPT !.present = @ \ {"status"}, !.status = "-"]

\* A serializer that lets the client write status.
ValidatedDataStatusWritable(body) ==
    [body EXCEPT !.present = @ \ {"user"}, !.user = "-"]

\* serializer.validated_data: the body without its read-only fields.
ValidatedData(body) ==
    [body EXCEPT !.present = @ \ ReadOnlyFields, !.user = "-", !.status = "-"]

\* is_valid(): description is required unless the update is partial.
IsValid(body, partial) == partial \/ "description" \in body.present

\* HazardReportSerializer.create, up to the call of super().create.
CreateData(validated, caller) ==
    IF caller # Anonymous
    THEN [validated EXCEPT !.present = @ \cup {"user"}, !.user = caller]
    ELSE validated

\* ModelSerializer.create: HazardReport.objects.create(**validated_data);
\* a field that is not given takes the model's default.
NewReport(data) ==
    [user |-> data.user,
     description |-> data.description,
     status |-> IF "status" \in data.present THEN data.status ELSE UNVERIFIED]

\* ModelSerializer.update: setattr for every validated field, then save.
UpdatedReport(row, data) ==
    [user |-> IF "user" \in data.present THEN data.user ELSE row.user,
     description |-> IF "description" \in data.present THEN data.description
                     ELSE row.description,
     status |-> IF "status" \in data.present THEN data.status ELSE row.status]

\* HazardReportSerializer.update: the owner check.
OwnerCheckFails(row, caller) == row.user # caller

\* The body of a request that carries none (DELETE).
NoBody == [present |-> {}, description |-> "-", user |-> "-", status |-> "-"]

\* The viewset names no permission class, so the project's default applies
\* (settings, outside this code): a request without credential is either let
\* through to the handler or refused before it.
Refused(caller, refuse) == caller = Anonymous /\ refuse
Refusals(caller) == IF caller = Anonymous THEN BOOLEAN ELSE {FALSE}

Response(op, caller, id, code, error, body, owner, before) ==
    [op |-> op, caller |-> caller, id |-> id, code |-> code, error |-> error,
     sent_user |-> body.user, sent_status |-> body.status, owner |-> owner,
     before |-> before]

offReports == <<posts, usage, now, pc, unit, items, profile, fetch_failed,
                total_saved, trace, calls, sc, nz, obs, procs>>

InitReports ==
    /\ ParkedRun
    /\ usage = {}
    /\ now = 0
    /\ calls = EmptyBag
    /\ sc = NoScorerCall
    /\ nz = NoNormalizerCall
    /\ reports = NoReports
    /\ resp = NoRequest
    /\ obs = NoObservation
    /\ procs = NoProcs

\* POST /hazards/
RpCreate ==
    /\ reports.next_id <= MaxReports
    /\ \E caller \in Callers, body \in Bodies :
      \E refuse \in Refusals(caller) :
          LET data == CreateData(ValidatedData(body), caller)
              id == reports.next_id
          IN  IF Refused(caller, refuse)
              THEN /\ resp' = Response("create", caller, 0, 401, "NotAuthenticated",
                                       body, "-", <<>>)
                   /\ UNCHANGED reports
              ELSE IF ~IsValid(body, FALSE)
              THEN /\ resp' = Response("create", caller, 0, 400, "ValidationError",
                                       body, "-", <<>>)
                   /\ UNCHANGED reports
              ELSE IF "user" \notin data.present
              THEN \* user_id is NOT NULL: the insert fails
                   /\ resp' = Response("create", caller, 0, 500, "IntegrityError",
                                       body, "-", <<>>)
                   /\ UNCHANGED reports
              ELSE /\ reports' = [rows |-> (id :> NewReport(data)) @@ reports.rows,
                                  next_id |-> id + 1]
                   /\ resp' = Response("create", caller, id, 201, "-", body,
                                       "-", <<>>)
    /\ UNCHANGED offReports

\* PUT /hazards/<id>/ (partial = FALSE) and PATCH /hazards/<id>/ (partial = TRUE)
RpUpdate ==
    /\ \E caller \in Callers, body \in Bodies, partial \in BOOLEAN,
          id \in 1..MaxReports :
      \E refuse \in Refusals(caller) :
          IF Refused(caller, refuse)
          THEN /\ resp' = Response("update", caller, id, 401, "NotAuthenticated",
                                   body, "-", <<>>)
               /\ UNCHANGED reports
          ELSE IF id \notin DOMAIN reports.rows
          THEN /\ resp' = Response("update", caller, id, 404, "Http404", body,
                                   "-", <<>>)
               /\ UNCHANGED reports
          ELSE LET row == reports.rows[id]
               IN  IF ~IsValid(body, partial)
                   THEN /\ resp' = Response("update", caller, id, 400,
                                            "ValidationError", body, row.user,
                                            <<row>>)
                        /\ UNCHANGED reports
                   ELSE IF OwnerCheckFails(row, caller)
                   THEN /\ resp' = Response("update", caller, id, 400,
                                            "ValidationError", body, row.user,
                                            <<row>>)
                        /\ UNCHANGED reports
                   ELSE /\ reports' =
                              [reports EXCEPT
                                  !.rows[id] = UpdatedReport(row, ValidatedData(body))]
                        /\ resp' = Response("update", caller, id, 200, "-", body,
                                            row.user, <<row>>)
    /\ UNCHANGED offReports

\* DELETE /hazards/<id>/: DestroyModelMixin.destroy, instance.delete().
RpDestroy ==
    /\ \E caller \in Callers, id \in 1..MaxReports :
      \E refuse \in Refusals(caller) :
          IF Refused(caller, refuse)
          THEN /\ resp' = Response("destroy", caller, id, 401, "NotAuthenticated",
                                   NoBody, "-", <<>>)
               /\ UNCHANGED reports
          ELSE IF id \notin DOMAIN reports.rows
          THEN /\ resp' = Response("destroy", caller, id, 404, "Http404", NoBody,
                                   "-", <<>>)
               /\ UNCHANGED reports
          ELSE /\ reports' =
                     [reports EXCEPT
                         !.rows = [i \in DOMAIN reports.rows \ {id} |->
                                      reports.rows[i]]]
               /\ resp' = Response("destroy", caller, id, 204, "-", NoBody,
                                   reports.rows[id].user, <<reports.rows[id]>>)
    /\ UNCHANGED offReports

NextReports == RpCreate \/ RpUpdate \/ RpDestroy

SpecReports == InitReports /\ [][NextReports]_vars

\* An authorization error, as an HTTP API reports one: 401 or 403.
AuthorizationError(code) == code \in {401, 403}

\* C3. Ownership on update: an update (full or partial) of a report by a
\* caller who is not its owner fails with an authorization error and leaves
\* every stored field of the report unchanged.
C3_OwnershipOnUpdate ==
    (resp.op = "update" /\ resp.owner # "-" /\ resp.caller # resp.owner)
        => /\ AuthorizationError(resp.code)
           /\ reports.rows[resp.id] = resp.before[1]

\* C4. Create assigns owner and status server-side: whatever owner or status
\* the client sends, a report that a create request stores is owned by the
\* caller and has status 'unverified'.
C4_CreateAssignsOwnerAndStatus ==
    /\ \A id \in DOMAIN reports.rows : reports.rows[id].status = UNVERIFIED
    /\ (resp.op = "create" /\ resp.code = 201)
          => /\ resp.id \in DOMAIN reports.rows
             /\ reports.rows[resp.id].user = resp.caller
             /\ reports.rows[resp.id].status = UNVERIFIED

\* A create request that named another owner and status 'verified' succeeded.
C4_Witness ==
    /\ resp.op = "create" /\ resp.code = 201
    /\ resp.sent_status = VERIFIED
    /\ resp.sent_user \in Users \ {resp.caller}
    /\ reports.rows[resp.id].user = resp.caller

\* C13. Owner and status are immutable through the API: whatever owner and
\* status the requests carry, no create, update (full or partial) or delete
\* by any caller changes the owner or the status of a report that exists
\* before and after it, and a report's id is never given to another report.
C13_OwnerAndStatusImmutable ==
    [][ /\ \A id \in DOMAIN reports.rows \cap DOMAIN reports'.rows :
              /\ reports'.rows[id].user = reports.rows[id].user
              /\ reports'.rows[id].status = reports.rows[id].status
        /\ \A id \in DOMAIN reports'.rows \ DOMAIN reports.rows :
              id >= reports.next_id
      ]_vars

\* The owner's update named another owner and status 'verified'; it changed
\* the description and nothing else.
C13_Witness ==
    /\ resp.op = "update" /\ resp.code = 200
    /\ resp.sent_status = VERIFIED
    /\ resp.sent_user \in Users \ {resp.caller}
    /\ reports.rows[resp.id].description # resp.before[1].description
    /\ reports.rows[resp.id].user = resp.caller
    /\ reports.rows[resp.id].status = UNVERIFIED

\* C20. Only the owner can affect a report: no operation (create, update,
\* partial update, delete) issued by a caller other than a report's owner
\* removes the report or changes any of its stored fields.
C20_OnlyOwnerAffectsReport ==
    [][ \A id \in DOMAIN reports.rows :
            resp'.caller # reports.rows[id].user
                => /\ id \in DOMAIN reports'.rows
                   /\ reports'.rows[id] = reports.rows[id]
      ]_vars

---------------------------------------------------------------------------
(* SpecRace: two ingest runs whose steps interleave. Each run ingests one  *)
(* item; its existence check and its insert are separate steps. The        *)
(* SocialMediaPost table may or may not carry a unique constraint on       *)
(* (platform, post_id): with one, the insert of a second row for a key     *)
(* raises, which the ingestor's except catches.                            *)

Runs == {"run1", "run2"}

\* The item a run ingests: a tweet, or a media item with a caption.
RaceTweet(post_id) ==
    ProcessTweet([id |-> post_id, text |-> <<"a">>, entities |-> NoEntities,
                  geo |-> GeoNone, verified |-> FALSE, followers_count |-> 0,
                  engagement |-> 0])
RaceMedia(post_id) == ProcessMediaItem([id |-> post_id, caption |-> <<"a">>], "500")
RaceProfile == [ok |-> TRUE, account_type |-> "PERSONAL"]

RunAt(at, platform, post_id, result) ==
    [pc |-> at, platform |-> platform, post_id |-> post_id, result |-> result]

offRace == <<usage, now, pc, unit, items, profile, fetch_failed, total_saved,
             trace, calls, sc, nz, reports, resp, obs>>

InitRace ==
    /\ posts \in InitialStores
    /\ usage = {}
    /\ now = 1
    /\ pc = "off"
    /\ unit = 0
    /\ items = <<>>
    /\ profile = NoProfile
    /\ fetch_failed = FALSE
    /\ total_saved = 0
    /\ trace = <<>>
    /\ calls = EmptyBag
    /\ sc = NoScorerCall
    /\ nz = NoNormalizerCall
    /\ reports = NoReports
    /\ resp = NoRequest
    /\ obs = NoObservation
    /\ \E unique \in BOOLEAN :
          procs = [run |-> [p \in Runs |-> RunAt("start", "-", "-", "-")],
                   unique |-> unique, overlapped |-> FALSE]

\* Another run has checked the same key and has not inserted yet.
BetweenCheckAndInsert(p, platform, post_id) ==
    \E q \in Runs \ {p} :
        procs.run[q] = RunAt("checked", platform, post_id, "-")

\* existing_post = SocialMediaPost.objects.filter(platform=..., post_id=...).first()
\* if existing_post: continue / return False
RcCheck ==
    /\ \E p \in Runs, platform \in Platforms, post_id \in PostIds :
          /\ procs.run[p].pc = "start"
          /\ procs' =
                [procs EXCEPT
                    !.run[p] = IF ExistingPost(posts, platform, post_id)
                               THEN RunAt("done", platform, post_id, "skip")
                               ELSE RunAt("checked", platform, post_id, "-"),
                    !.overlapped = @ \/ BetweenCheckAndInsert(p, platform, post_id)]
    /\ UNCHANGED posts
    /\ UNCHANGED offRace

\* The rest of the loop body: classify, (Instagram) gate, create.
RcCreate ==
    /\ \E p \in Runs, ml \in MLOutcomes :
          LET me == procs.run[p]
              row == IF me.platform = "Twitter"
                     THEN TwPostRow(RaceTweet(me.post_id), ml, now)
                     ELSE IgPostRow(RaceMedia(me.post_id), RaceProfile, ml, now)
              finish(result) ==
                  [procs EXCEPT !.run[p] = RunAt("done", me.platform, me.post_id,
                                                 result)]
          IN  /\ me.pc = "checked"
              /\ IF ml.raises
                 THEN procs' = finish("error") /\ UNCHANGED posts
                 ELSE IF me.platform = "Instagram"
                         /\ GateRejects(IsDisasterOf(ml), ConfidenceOf(ml))
                 THEN procs' = finish("reject") /\ UNCHANGED posts
                 ELSE IF procs.unique /\ ExistingPost(posts, me.platform, me.post_id)
                 THEN \* IntegrityError, caught by `except Exception`
                      procs' = finish("error") /\ UNCHANGED posts
                 ELSE /\ posts' = CreatePost(posts, row)
                      /\ procs' = finish("insert")
    /\ UNCHANGED offRace

NextRace == RcCheck \/ RcCreate

SpecRace == InitRace /\ [][NextRace]_vars

\* C16. Concurrent ingestion can duplicate a post: the existence check and
\* the insert are separate steps, so two interleaved runs can both pass the
\* check for one (platform, post_id) before either inserts, and then the
\* store holds two rows for it. That is the only way to a duplicate: a key
\* has more than one row only if the table has no unique constraint and one
\* run checked the key between another run's check and insert; runs that do
\* not overlap so (serial execution) leave at most one row per key.
C16_ConcurrentDuplicate ==
    \A platform \in Platforms, post_id \in PostIds :
        /\ CountOf(posts, platform, post_id) <= Cardinality(Runs)
        /\ CountOf(posts, platform, post_id) > 1
              => /\ ~procs.unique
                 /\ procs.overlapped
                 /\ \A p \in Runs :
                       procs.run[p] = RunAt("done", platform, post_id, "insert")

\* Both runs passed the check for one key and both inserted: two rows.
C16_Witness ==
    \E platform \in Platforms, post_id \in PostIds :
        /\ CountOf(posts, platform, post_id) = 2
        /\ \A p \in Runs : procs.run[p] = RunAt("done", platform, post_id, "insert")

---------------------------------------------------------------------------
(* SpecUpsert: callers of _log_api_usage whose steps interleave, all on    *)
(* one bucket. A call is get_or_create (one step at the database, which    *)
(* hands the caller its own copy of the row), the increments on that copy, *)
(* and usage.save(), which writes every field of the copy to the row.      *)

Callers2 == {"caller1", "caller2"}

\* The bucket all callers log to.
UpsertEndpoint == ProfileEndpoint("me")

\* The increments of _log_api_usage on the caller's copy of the row.
Counted(row, data_count, success, rate_limited) ==
    LET counted == [row EXCEPT !.requests_made = @ + 1]
    IN  IF success
        THEN [counted EXCEPT !.successful_requests = @ + 1,
                             !.data_retrieved = @ + data_count]
        ELSE IF rate_limited
        THEN [counted EXCEPT !.rate_limited = @ + 1]
        ELSE [counted EXCEPT !.failed_requests = @ + 1]

\* usage.save() by a caller that holds a copy of the row: UPDATE of the row
\* with the copy's primary key, all fields.
SaveCopy(u, copy) ==
    {r \in u : BucketKey(r.platform, r.endpoint, r.hour)
                  # BucketKey(copy.platform, copy.endpoint, copy.hour)}
        \cup {copy}

CallerAt(at, copy) == [pc |-> at, copy |-> copy]

offUpsert == <<posts, now, pc, unit, items, profile, fetch_failed, total_saved,
               trace, sc, nz, reports, resp, obs>>

\* The bucket is absent, or an earlier call left it.
InitUpsert ==
    /\ ParkedRun
    /\ usage \in {{}, IgLogApiUsage({}, UpsertEndpoint, 1, TRUE, FALSE, 0)}
    /\ now = 0
    /\ calls = EmptyBag
    /\ sc = NoScorerCall
    /\ nz = NoNormalizerCall
    /\ reports = NoReports
    /\ resp = NoRequest
    /\ obs = NoObservation
    /\ procs = [run |-> [p \in Callers2 |->
                           CallerAt("start", NewBucket("Instagram", UpsertEndpoint, 0))],
                before |-> CounterOf(usage, BucketKey("Instagram", UpsertEndpoint, 0),
                                     "requests_made")]

\* usage, created = APIUsage.objects.get_or_create(...)
UpGetOrCreate ==
    /\ \E p \in Callers2 :
          LET row == GetOrCreate(usage, "Instagram", UpsertEndpoint, Hour(now))
          IN  /\ procs.run[p].pc = "start"
              /\ usage' = usage \cup {row}
              /\ procs' = [procs EXCEPT !.run[p] = CallerAt("got", row)]
    /\ UNCHANGED calls
    /\ UNCHANGED offUpsert

\* usage.requests_made += 1; ...; usage.save()
UpSave ==
    /\ \E p \in Callers2, data_count \in {0, 1}, success \in BOOLEAN,
          is_rate_limited \in BOOLEAN :
          LET copy == Counted(procs.run[p].copy, data_count, success,
                              is_rate_limited)
          IN  /\ procs.run[p].pc = "got"
              /\ usage' = SaveCopy(usage, copy)
              /\ procs' = [procs EXCEPT !.run[p] = CallerAt("done", copy)]
    /\ calls' = calls (+) SetToBag({BucketKey("Instagram", UpsertEndpoint, Hour(now))})
    /\ UNCHANGED offUpsert

NextUpsert == UpGetOrCreate \/ UpSave

SpecUpsert == InitUpsert /\ [][NextUpsert]_vars

\* C17. The usage-counter upsert loses no update under concurrent callers:
\* when all k interleaved callers of _log_api_usage for one bucket have
\* completed, exactly one bucket exists for the key and its requests_made has
\* grown by exactly k.
C17_NoLostUpdate ==
    (\A p \in Callers2 : procs.run[p].pc = "done")
        => /\ Cardinality(BucketsOf(usage, "Instagram", UpsertEndpoint, Hour(now))) = 1
           /\ \A r \in BucketsOf(usage, "Instagram", UpsertEndpoint, Hour(now)) :
                 r.requests_made = procs.before + Cardinality(Callers2)

=============================================================================
